---- MODULE Spec2Model ----
(***************************************************************************)
(* Model of the shopping-list store (shopping-list/src/client.py), its     *)
(* validators (shopping-list/src/validators.py) and the tools that wrap it *)
(* (shopping-list/src/tools.py).                                           *)
(*                                                                         *)
(* Spec:        the store's calls, one at a time.                          *)
(* SpecTool:    the calls of the three tools, one at a time.               *)
(* SpecThreads: two update_list calls of the store running as threads.     *)
(*                                                                         *)
(* The store is one mapping customer_id -> {list_id, items}; items is an   *)
(* ordered list of {sku, quantity}.  Every call runs to completion before  *)
(* the next one starts.  Arguments are integers (and operation names), so  *)
(* the isinstance(..., int) tests of the code are true for every input.    *)
(***************************************************************************)
EXTENDS Integers, Sequences, FiniteSets

\* ---------------------------------------------------------------- bounds
MaxQty    == 2      \* well-formed quantities of the calls: 0 .. MaxQty
MaxStored == 2      \* calls that would bring the total of the stored
                    \* quantities above MaxStored are not made

\* arguments that pass every check of update_list
Customers   == {0, 1}
CatalogSkus == {101, 102}
Quantities  == 0 .. MaxQty
Operations  == {"add", "remove", "set"}
\* arguments that one check rejects: an invalid sku (0), a sku that is not in
\* the catalog (999), a negative quantity, a negative customer id, an
\* operation name the store does not know
OtherSkus     == {0, 999}
BadQuantities == {-1}
BadCustomers  == {-1}
BadOperations == {"update"}

Call(S, Q, C, O) == [sku : S, quantity : Q, customer_id : C, operation : O]

\* calls with exactly one rejected argument, under every operation; the
\* other arguments are those of update_list(101, 1, 0, operation)
RejectedCalls ==
    Call(OtherSkus, {1}, {0}, Operations)
      \cup Call({101}, BadQuantities, {0}, Operations)
      \cup Call({101}, {1}, BadCustomers, Operations)
      \cup Call({101}, {1}, {0}, BadOperations)

\* every call whose arguments are all accepted, and the rejected calls
UpdateCalls ==
    Call(CatalogSkus, Quantities, Customers, Operations) \cup RejectedCalls

\* ------------------------------------------------------------ the catalog
\* ShoppingListClient.__init__: self.items, keyed by sku
item_names == <<"Apple", "Bread", "Milk", "Eggs", "Chicken Breast", "Pasta", "Tomatoes">>

items == [s \in 101 .. 107 |-> [sku |-> s, item_name |-> item_names[s - 100]]]

\* ------------------------------------------------------------- exceptions
OK == "ok"
\* InvalidSkuError and InvalidQuantityError are subclasses of ValidationError
IsValidationError(e) == e \in {"ValidationError", "InvalidSkuError", "InvalidQuantityError"}
IsItemNotFoundError(e) == e = "ItemNotFoundError"

\* ------------------------------------------------------------- validators
validate_sku(sku) == IF sku <= 0 THEN "InvalidSkuError" ELSE OK

validate_quantity(quantity) == IF quantity < 0 THEN "InvalidQuantityError" ELSE OK

\* ------------------------------------------------------------------ store
\* the value returned when a call raises
None == [list_id |-> -1, items |-> <<>>]

\* self.shopping_lists[customer_id] = lst
store_list(lists, customer_id, lst) ==
    [c \in (DOMAIN lists) \cup {customer_id} |->
        IF c = customer_id THEN lst ELSE lists[c]]

get_shopping_list_overwrite(lists, customer_id) ==
    IF customer_id < 0
    THEN [result |-> "ValidationError", lists |-> lists, ret |-> None]
    ELSE LET fresh == [list_id |-> customer_id, items |-> <<>>]
         IN  [result |-> OK, lists |-> store_list(lists, customer_id, fresh), ret |-> fresh]

get_shopping_list_default(lists, customer_id) ==
    IF customer_id < 0
    THEN [result |-> "ValidationError", lists |-> lists, ret |-> None]
    ELSE LET created == IF 0 \in DOMAIN lists
                        THEN lists
                        ELSE store_list(lists, 0, [list_id |-> 0, items |-> <<>>])
         IN  [result |-> OK, lists |-> created, ret |-> created[0]]

get_shopping_list(lists, customer_id) ==
    IF customer_id < 0
    THEN [result |-> "ValidationError", lists |-> lists, ret |-> None]
    ELSE LET created == IF customer_id \in DOMAIN lists
                        THEN lists
                        ELSE store_list(lists, customer_id,
                                        [list_id |-> customer_id, items |-> <<>>])
         IN  [result |-> OK, lists |-> created, ret |-> created[customer_id]]

\* next((item for item in items if item['sku'] == sku), None):
\* the index of the first line item with this sku, 0 for None
existing_item_none(its, sku) == 0

existing_item(its, sku) ==
    IF \E i \in 1 .. Len(its) : its[i].sku = sku
    THEN CHOOSE i \in 1 .. Len(its) :
            /\ its[i].sku = sku
            /\ \A j \in 1 .. (i - 1) : its[j].sku # sku
    ELSE 0

\* items.remove(x): drops the first element equal to x
list_remove_last(its, x) ==
    IF Len(its) = 0 THEN its ELSE SubSeq(its, 1, Len(its) - 1)

list_remove(its, x) ==
    IF \E i \in 1 .. Len(its) : its[i] = x
    THEN LET k == CHOOSE i \in 1 .. Len(its) :
                     /\ its[i] = x
                     /\ \A j \in 1 .. (i - 1) : its[j] # x
         IN  SubSeq(its, 1, k - 1) \o SubSeq(its, k + 1, Len(its))
    ELSE its

\* the "add" branch of update_list; e is the index of existing_item
add_overwrite(its, e, sku, quantity) ==
    IF e = 0
    THEN [result |-> OK, items |-> Append(its, [sku |-> sku, quantity |-> quantity])]
    ELSE [result |-> OK, items |-> [its EXCEPT ![e].quantity = quantity]]

add_prepend(its, e, sku, quantity) ==
    IF e = 0
    THEN [result |-> OK, items |-> <<[sku |-> sku, quantity |-> quantity]>> \o its]
    ELSE [result |-> OK, items |-> [its EXCEPT ![e].quantity = its[e].quantity + quantity]]

add_branch(its, e, sku, quantity) ==
    IF e = 0
    THEN [result |-> OK, items |-> Append(its, [sku |-> sku, quantity |-> quantity])]
    ELSE LET new_quantity == its[e].quantity + quantity
         IN  IF validate_quantity(new_quantity) # OK
             THEN [result |-> validate_quantity(new_quantity), items |-> its]
             ELSE [result |-> OK, items |-> [its EXCEPT ![e].quantity = new_quantity]]

\* the "remove" branch of update_list
remove_clamp(its, e, sku, quantity) ==
    IF e = 0
    THEN [result |-> "ItemNotFoundError", items |-> its]
    ELSE IF quantity > its[e].quantity
         THEN [result |-> "ValidationError", items |-> list_remove(its, its[e])]
         ELSE LET new_quantity == its[e].quantity - quantity
              IN  IF new_quantity > 0
                  THEN [result |-> OK, items |-> [its EXCEPT ![e].quantity = new_quantity]]
                  ELSE [result |-> OK, items |-> list_remove(its, its[e])]

remove_not_found(its, e, sku, quantity) ==
    IF e = 0 \/ quantity > its[e].quantity
    THEN [result |-> "ItemNotFoundError", items |-> its]
    ELSE LET new_quantity == its[e].quantity - quantity
         IN  IF new_quantity > 0
             THEN [result |-> OK, items |-> [its EXCEPT ![e].quantity = new_quantity]]
             ELSE [result |-> OK, items |-> list_remove(its, its[e])]

remove_keep_zero(its, e, sku, quantity) ==
    IF e = 0
    THEN [result |-> "ItemNotFoundError", items |-> its]
    ELSE IF quantity > its[e].quantity
         THEN [result |-> "ValidationError", items |-> its]
         ELSE [result |-> OK,
               items |-> [its EXCEPT ![e].quantity = its[e].quantity - quantity]]

remove_branch(its, e, sku, quantity) ==
    IF e = 0
    THEN [result |-> "ItemNotFoundError", items |-> its]
    ELSE IF quantity > its[e].quantity
         THEN [result |-> "ValidationError", items |-> its]
         ELSE LET new_quantity == its[e].quantity - quantity
              IN  IF new_quantity > 0
                  THEN [result |-> OK, items |-> [its EXCEPT ![e].quantity = new_quantity]]
                  ELSE [result |-> OK, items |-> list_remove(its, its[e])]

\* the "set" branch of update_list
set_accumulate(its, e, sku, quantity) ==
    IF quantity > 0
    THEN IF e # 0
         THEN [result |-> OK, items |-> [its EXCEPT ![e].quantity = @ + quantity]]
         ELSE [result |-> OK, items |-> Append(its, [sku |-> sku, quantity |-> quantity])]
    ELSE IF e # 0
         THEN [result |-> OK, items |-> list_remove(its, its[e])]
         ELSE [result |-> OK, items |-> its]

set_branch(its, e, sku, quantity) ==
    IF quantity > 0
    THEN IF e # 0
         THEN [result |-> OK, items |-> [its EXCEPT ![e].quantity = quantity]]
         ELSE [result |-> OK, items |-> Append(its, [sku |-> sku, quantity |-> quantity])]
    ELSE IF e # 0
         THEN [result |-> OK, items |-> list_remove(its, its[e])]
         ELSE [result |-> OK, items |-> its]

\* ShoppingListClient.update_list.  The list is fetched (and created) before
\* the branch runs, and the branch mutates it in place, so a branch that
\* raises leaves the fetched list in the mapping.
update_list(lists, sku, quantity, customer_id, operation) ==
    IF validate_sku(sku) # OK
    THEN [result |-> validate_sku(sku), lists |-> lists, ret |-> None]
    ELSE IF validate_quantity(quantity) # OK
    THEN [result |-> validate_quantity(quantity), lists |-> lists, ret |-> None]
    ELSE IF operation \notin {"add", "remove", "set"}
    THEN [result |-> "ValidationError", lists |-> lists, ret |-> None]
    ELSE IF sku \notin DOMAIN items
    THEN [result |-> "ItemNotFoundError", lists |-> lists, ret |-> None]
    ELSE LET g == get_shopping_list(lists, customer_id)
         IN  IF g.result # OK
             THEN [result |-> g.result, lists |-> g.lists, ret |-> None]
             ELSE LET its == g.ret.items
                      e   == existing_item(its, sku)
                      b   == IF operation = "add"
                             THEN add_branch(its, e, sku, quantity)
                             ELSE IF operation = "remove"
                             THEN remove_branch(its, e, sku, quantity)
                             ELSE set_branch(its, e, sku, quantity)
                      shopping_list == [g.ret EXCEPT !.items = b.items]
                      \* the branch changes the fetched list object itself; the
                      \* mapping holds that object under its list_id
                      after == store_list(g.lists, g.ret.list_id, shopping_list)
                  IN  [result |-> b.result,
                       lists  |-> after,
                       ret    |-> IF b.result = OK THEN shopping_list ELSE None]

\* ------------------------------------------------------------------ state
\* shopping_lists and last describe the store when its calls run one at a
\* time; heap, threads and sched describe two update_list calls that run as
\* threads (see "threads" below) and stay empty otherwise
VARIABLES shopping_lists, last, heap, threads, sched

threadVars == <<heap, threads, sched>>

vars == <<shopping_lists, last, heap, threads, sched>>

\* no objects, no threads
NoHeap == [map |-> <<>>, lists |-> <<>>, items |-> <<>>]

NoThreads == <<>>

NoSched == [atomic |-> TRUE, owner |-> 0, start |-> <<>>]

NoCall == [op |-> "none", sku |-> 0, quantity |-> 0, customer_id |-> 0,
           operation |-> "none", result |-> OK,
           before |-> <<>>, ret |-> None]

Init ==
    /\ shopping_lists = <<>>
    /\ last = NoCall
    /\ heap = NoHeap
    /\ threads = NoThreads
    /\ sched = NoSched

GetShoppingList ==
    \E c \in Customers \cup BadCustomers :
        \E r \in {get_shopping_list(shopping_lists, c)} :
            /\ shopping_lists' = r.lists
            /\ last' = [op |-> "get_shopping_list", sku |-> 0, quantity |-> 0,
                        customer_id |-> c, operation |-> "none",
                        result |-> r.result, before |-> shopping_lists,
                        ret |-> r.ret]
            /\ UNCHANGED threadVars

RECURSIVE SumQuantity(_)
SumQuantity(its) ==
    IF Len(its) = 0 THEN 0 ELSE its[1].quantity + SumQuantity(Tail(its))

RECURSIVE TotalStored(_, _)
TotalStored(lists, cs) ==
    IF cs = {} THEN 0
    ELSE LET c == CHOOSE x \in cs : TRUE
         IN  SumQuantity(lists[c].items) + TotalStored(lists, cs \ {c})

StoredWithin(lists, bound) == TotalStored(lists, DOMAIN lists) <= bound

UpdateList ==
    \E call \in UpdateCalls :
        \E r \in {update_list(shopping_lists, call.sku, call.quantity,
                             call.customer_id, call.operation)} :
            /\ StoredWithin(r.lists, MaxStored)
            /\ shopping_lists' = r.lists
            /\ last' = [op |-> "update_list", sku |-> call.sku,
                        quantity |-> call.quantity,
                        customer_id |-> call.customer_id,
                        operation |-> call.operation,
                        result |-> r.result, before |-> shopping_lists,
                        ret |-> r.ret]
            /\ UNCHANGED threadVars

Next == GetShoppingList \/ UpdateList

Spec == Init /\ [][Next]_vars

\* ------------------------------------------------------------ tool layer
\* shopping-list/src/tools.py: the three tools call the store held by the
\* module (shopping_list_client) and turn exceptions into result data.
\* A result is [kind, message, error_code]: kind "data" for a normal result,
\* "error" for a dictionary with an "error" message, "raised" for an exception
\* that leaves forward().  error_code is the value under the "error_code" key:
\* "None" for Python's None, "absent" when the dictionary has no such key.
Data == [kind |-> "data", message |-> FALSE, error_code |-> "absent"]

ErrorResult(code) == [kind |-> "error", message |-> TRUE, error_code |-> code]

Raised == [kind |-> "raised", message |-> TRUE, error_code |-> "absent"]

\* ShoppingListError.__init__: every raise in the code passes a message
\* only, so the error_code attribute is None
error_code_of(e) == "None"

\* the except clauses of GetShoppingListTool.forward, for the exception e
\* raised in the try block: a ValueError is answered by raising
list_handlers(e) ==
    IF e = "ValueError"
    THEN Raised
    ELSE IF IsValidationError(e) \/ IsItemNotFoundError(e)
    THEN ErrorResult(error_code_of(e))
    ELSE ErrorResult("absent")

\* the except clauses of GetItemDetailsTool.forward
details_handlers(e) ==
    IF IsValidationError(e) \/ IsItemNotFoundError(e)
    THEN ErrorResult(error_code_of(e))
    ELSE ErrorResult("absent")

\* the except clauses of UpdateListTool.forward
update_handlers(e) ==
    IF IsValidationError(e) THEN ErrorResult("VALIDATION_ERROR")
    ELSE IF IsItemNotFoundError(e) THEN ErrorResult("ITEM_NOT_FOUND")
    ELSE ErrorResult("UNKNOWN_ERROR")

\* ShoppingListValidator.validate_customer_id; int(customer_id) succeeds
validate_customer_id(customer_id) ==
    IF customer_id < 0 THEN "ValidationError" ELSE OK

\* ShoppingListValidator.validate_operation
validate_operation(operation) ==
    IF operation \notin {"add", "remove", "set"} THEN "ValidationError" ELSE OK

\* GetShoppingListTool.forward
GetShoppingListTool_forward(lists, customer_id) ==
    IF validate_customer_id(customer_id) # OK
    THEN [result |-> validate_customer_id(customer_id), lists |-> lists,
          ret |-> None, out |-> list_handlers(validate_customer_id(customer_id))]
    ELSE LET g == get_shopping_list(lists, customer_id)
         IN  IF g.result # OK
             THEN [result |-> g.result, lists |-> g.lists, ret |-> None,
                   out |-> list_handlers(g.result)]
             ELSE [result |-> OK, lists |-> g.lists, ret |-> g.ret, out |-> Data]

\* str.lower() and str.strip() on the names the calls use
lower(name) ==
    CASE name \in {"Apple", "apple"}  -> "apple"
      [] name \in {"Milk", "MILK"}    -> "milk"
      [] name = "Bread"               -> "bread"
      [] name = "Eggs"                -> "eggs"
      [] name = "Chicken Breast"      -> "chicken breast"
      [] name = "Pasta"               -> "pasta"
      [] name = "Tomatoes"            -> "tomatoes"
      [] name = "Caviar"              -> "caviar"
      [] OTHER                        -> name

strip(name) == IF name = "  " THEN "" ELSE name

\* ShoppingListClient.get_item_info; the price written back is the price read
get_item_info(sku) ==
    IF validate_sku(sku) # OK THEN validate_sku(sku)
    ELSE IF sku \notin DOMAIN items THEN "ItemNotFoundError"
    ELSE OK

\* GetItemDetailsTool.forward.  sku 0 and item_name "" stand for the falsy
\* arguments (None, 0, "").  The store's lists are not touched.
GetItemDetailsTool_forward(sku, item_name) ==
    LET e == IF sku = 0 /\ item_name = ""
             THEN "ValidationError"
             ELSE IF sku # 0
             THEN IF validate_sku(sku) # OK
                  THEN validate_sku(sku)
                  ELSE get_item_info(sku)
             ELSE IF strip(item_name) = ""
             THEN "ValidationError"
             ELSE IF \E s \in DOMAIN items :
                        lower(items[s].item_name) = lower(item_name)
             THEN OK
             ELSE "ItemNotFoundError"
    IN  [result |-> e, out |-> IF e = OK THEN Data ELSE details_handlers(e)]

\* UpdateListTool.forward
UpdateListTool_forward(lists, sku, quantity, customer_id, operation) ==
    IF validate_quantity(quantity) # OK
    THEN [result |-> validate_quantity(quantity), lists |-> lists, ret |-> None,
          out |-> update_handlers(validate_quantity(quantity))]
    ELSE IF validate_operation(operation) # OK
    THEN [result |-> validate_operation(operation), lists |-> lists, ret |-> None,
          out |-> update_handlers(validate_operation(operation))]
    ELSE LET g == get_shopping_list(lists, customer_id)
         IN  IF g.result # OK
             THEN [result |-> g.result, lists |-> g.lists, ret |-> None,
                   out |-> update_handlers(g.result)]
             ELSE LET item_exists ==
                          \E i \in 1 .. Len(g.ret.items) : g.ret.items[i].sku = sku
                      e == IF operation = "remove" /\ ~item_exists
                           THEN "ItemNotFoundError"
                           ELSE IF operation = "remove" /\ quantity <= 0
                           THEN "ValidationError"
                           ELSE OK
                      u == update_list(g.lists, sku, quantity, customer_id, operation)
                  IN  IF e # OK
                      THEN [result |-> e, lists |-> g.lists, ret |-> None,
                            out |-> update_handlers(e)]
                      ELSE IF u.result # OK
                      THEN [result |-> u.result, lists |-> u.lists, ret |-> None,
                            out |-> update_handlers(u.result)]
                      ELSE [result |-> OK, lists |-> u.lists, ret |-> u.ret,
                            out |-> Data]

\* arguments of the get_item_details calls
DetailSkus  == {0, -1, 101, 999}
DetailNames == {"", "  ", "apple", "MILK", "Caviar"}

ToolGetShoppingList ==
    \E c \in Customers \cup BadCustomers :
        \E r \in {GetShoppingListTool_forward(shopping_lists, c)} :
            /\ shopping_lists' = r.lists
            /\ last' = [op |-> "GetShoppingListTool", sku |-> 0, quantity |-> 0,
                        customer_id |-> c, operation |-> "none",
                        result |-> r.result, before |-> shopping_lists,
                        ret |-> r.ret, out |-> r.out, item_name |-> ""]
            /\ UNCHANGED threadVars

ToolGetItemDetails ==
    \E sku \in DetailSkus, item_name \in DetailNames :
        \E r \in {GetItemDetailsTool_forward(sku, item_name)} :
            /\ shopping_lists' = shopping_lists
            /\ last' = [op |-> "GetItemDetailsTool", sku |-> sku, quantity |-> 0,
                        customer_id |-> 0, operation |-> "none",
                        result |-> r.result, before |-> shopping_lists,
                        ret |-> None, out |-> r.out, item_name |-> item_name]
            /\ UNCHANGED threadVars

ToolUpdateList ==
    \E call \in UpdateCalls :
        \E r \in {UpdateListTool_forward(shopping_lists, call.sku, call.quantity,
                                        call.customer_id, call.operation)} :
            /\ StoredWithin(r.lists, MaxStored)
            /\ shopping_lists' = r.lists
            /\ last' = [op |-> "UpdateListTool", sku |-> call.sku,
                        quantity |-> call.quantity,
                        customer_id |-> call.customer_id,
                        operation |-> call.operation,
                        result |-> r.result, before |-> shopping_lists,
                        ret |-> r.ret, out |-> r.out, item_name |-> ""]
            /\ UNCHANGED threadVars

NextTool == ToolGetShoppingList \/ ToolGetItemDetails \/ ToolUpdateList

SpecTool == Init /\ [][NextTool]_vars

\* ---------------------------------------------------------------- threads
\* Two update_list calls on the same store run as threads.  A thread can be
\* switched out between any two accesses to the store, so a call is a
\* sequence of steps, one per access to an object that the threads share:
\* the mapping (heap.map: customer id -> list object), the list objects
\* (heap.lists) and the line item objects (heap.items).  Objects are named by
\* their index.  With sched.atomic a call holds the store from its first step
\* to its last one; without it the steps of the two calls interleave freely.
Threads == {1, 2}

\* the calls the threads make
ThreadCalls == Call(CatalogSkus, Quantities, {0}, Operations)

\* the mappings the threads start from: a fresh store, the store after
\* get_shopping_list(0), the store after update_list(101, 1, 0, "add")
StartHeaps ==
    { NoHeap,
      [map   |-> [c \in {0} |-> 1],
       lists |-> <<[list_id |-> 0, items |-> <<>>]>>,
       items |-> <<>>],
      [map   |-> [c \in {0} |-> 1],
       lists |-> <<[list_id |-> 0, items |-> <<1>>]>>,
       items |-> <<[sku |-> 101, quantity |-> 1]>>] }

\* the mapping as get_shopping_list returns it: every list with its items
StoreOf(h) ==
    [c \in DOMAIN h.map |->
        [list_id |-> h.lists[h.map[c]].list_id,
         items   |-> [i \in 1 .. Len(h.lists[h.map[c]].items) |->
                         h.items[h.lists[h.map[c]].items[i]]]]]

\* update_list, lines 66-73, and get_shopping_list, lines 28-29: the checks
\* that read nothing but the arguments and the catalog
check_arguments(sku, quantity, customer_id, operation) ==
    IF validate_sku(sku) # OK THEN validate_sku(sku)
    ELSE IF validate_quantity(quantity) # OK THEN validate_quantity(quantity)
    ELSE IF operation \notin {"add", "remove", "set"} THEN "ValidationError"
    ELSE IF sku \notin DOMAIN items THEN "ItemNotFoundError"
    ELSE IF customer_id < 0 THEN "ValidationError"
    ELSE OK

\* new_quantity of the add branch (line 87) and of the remove branch (line
\* 96), from the quantity read from existing_item
new_quantity_stale(operation, existing, quantity) == quantity

new_quantity(operation, existing, quantity) ==
    IF operation = "add" THEN existing + quantity ELSE existing - quantity

\* the step after the search for existing_item (0 for None), lines 81-110
after_find(operation, existing, quantity) ==
    IF operation = "add"
    THEN IF existing = 0 THEN "append" ELSE "read"
    ELSE IF operation = "remove"
    THEN IF existing = 0 THEN "done" ELSE "compare"
    ELSE IF quantity > 0
         THEN IF existing # 0 THEN "write" ELSE "append"
         ELSE IF existing # 0 THEN "remove" ELSE "done"

Running(t, pc) ==
    /\ threads[t].pc = pc
    /\ sched.atomic => sched.owner \in {0, t}

\* thread t has made a step that leaves the objects h and its own state th
Commit(t, h, th) ==
    /\ heap' = h
    /\ threads' = [threads EXCEPT ![t] = th]
    /\ sched' = [sched EXCEPT !.owner = IF sched.atomic /\ th.pc # "done"
                                        THEN t ELSE 0]
    /\ shopping_lists' = StoreOf(h)
    /\ UNCHANGED last

\* lines 66-73, 28-31: the argument checks and "customer_id not in
\* self.shopping_lists"
ThreadCheck(t) ==
    /\ Running(t, "check")
    /\ LET th == threads[t]
           k  == th.call
           v  == check_arguments(k.sku, k.quantity, k.customer_id, k.operation)
       IN  IF v # OK
           THEN Commit(t, heap, [th EXCEPT !.pc = "done", !.result = v])
           ELSE IF k.customer_id \in DOMAIN heap.map
           THEN Commit(t, heap, [th EXCEPT !.pc = "fetch"])
           ELSE Commit(t, heap, [th EXCEPT !.pc = "create"])

\* lines 32-35: self.shopping_lists[customer_id] = a new list
ThreadCreate(t) ==
    /\ Running(t, "create")
    /\ LET th == threads[t]
           c  == th.call.customer_id
           h  == [heap EXCEPT
                    !.lists = Append(@, [list_id |-> c, items |-> <<>>]),
                    !.map   = [x \in (DOMAIN @) \cup {c} |->
                                  IF x = c THEN Len(heap.lists) + 1 ELSE @[x]]]
       IN  Commit(t, h, [th EXCEPT !.pc = "fetch"])

\* line 36: return self.shopping_lists[customer_id]
ThreadFetch(t) ==
    /\ Running(t, "fetch")
    /\ LET th == threads[t]
       IN  Commit(t, heap, [th EXCEPT !.pc = "find",
                                      !.shopping_list = heap.map[th.call.customer_id]])

\* line 79: the first line item of the list with the sku, or None
ThreadFind(t) ==
    /\ Running(t, "find")
    /\ LET th  == threads[t]
           k   == th.call
           ids == heap.lists[th.shopping_list].items
           its == [i \in 1 .. Len(ids) |-> heap.items[ids[i]]]
           e   == existing_item(its, k.sku)
           obj == IF e = 0 THEN 0 ELSE ids[e]
           pc  == after_find(k.operation, obj, k.quantity)
       IN  Commit(t, heap,
                  [th EXCEPT !.pc = pc,
                             !.existing_item = obj,
                             !.new_quantity = IF k.operation = "set"
                                              THEN k.quantity ELSE 0,
                             !.result = IF k.operation = "remove" /\ obj = 0
                                        THEN "ItemNotFoundError" ELSE OK])

\* lines 84, 107: items.append({"sku": sku, "quantity": quantity})
ThreadAppend(t) ==
    /\ Running(t, "append")
    /\ LET th == threads[t]
           k  == th.call
           h  == [heap EXCEPT
                    !.items = Append(@, [sku |-> k.sku, quantity |-> k.quantity]),
                    !.lists[th.shopping_list].items = Append(@, Len(heap.items) + 1)]
       IN  Commit(t, h, [th EXCEPT !.pc = "done"])

\* line 94: quantity > existing_item['quantity']
ThreadCompare(t) ==
    /\ Running(t, "compare")
    /\ LET th == threads[t]
       IN  IF th.call.quantity > heap.items[th.existing_item].quantity
           THEN Commit(t, heap, [th EXCEPT !.pc = "done", !.result = "ValidationError"])
           ELSE Commit(t, heap, [th EXCEPT !.pc = "read"])

\* lines 87-88, 96-97: new_quantity from the quantity of existing_item; the
\* add branch validates it, the remove branch tests it for > 0
ThreadRead(t) ==
    /\ Running(t, "read")
    /\ LET th == threads[t]
           k  == th.call
           q  == new_quantity(k.operation, heap.items[th.existing_item].quantity,
                              k.quantity)
       IN  IF k.operation = "add" /\ validate_quantity(q) # OK
           THEN Commit(t, heap, [th EXCEPT !.pc = "done",
                                           !.result = validate_quantity(q)])
           ELSE Commit(t, heap,
                       [th EXCEPT !.new_quantity = q,
                                  !.pc = IF k.operation = "remove" /\ q <= 0
                                         THEN "remove" ELSE "write"])

\* lines 89, 98: existing_item['quantity'] = new_quantity; line 105:
\* existing_item['quantity'] = quantity
ThreadWrite(t) ==
    /\ Running(t, "write")
    /\ LET th == threads[t]
           h  == [heap EXCEPT !.items[th.existing_item].quantity = th.new_quantity]
       IN  Commit(t, h, [th EXCEPT !.pc = "done"])

\* lines 100, 110: items.remove(existing_item) takes out the first element
\* that equals existing_item and raises ValueError when there is none
ThreadRemove(t) ==
    /\ Running(t, "remove")
    /\ LET th  == threads[t]
           ids == heap.lists[th.shopping_list].items
           x   == heap.items[th.existing_item]
           hit == {i \in 1 .. Len(ids) : heap.items[ids[i]] = x}
       IN  IF hit = {}
           THEN Commit(t, heap, [th EXCEPT !.pc = "done", !.result = "ValueError"])
           ELSE LET i == CHOOSE i \in hit : \A j \in hit : i <= j
                    h == [heap EXCEPT !.lists[th.shopping_list].items =
                              SubSeq(ids, 1, i - 1) \o SubSeq(ids, i + 1, Len(ids))]
                IN  Commit(t, h, [th EXCEPT !.pc = "done"])

InitThreads ==
    /\ last = NoCall
    /\ \E h \in StartHeaps, atomic \in BOOLEAN, k1, k2 \in ThreadCalls :
           /\ heap = h
           /\ shopping_lists = StoreOf(h)
           /\ sched = [atomic |-> atomic, owner |-> 0, start |-> StoreOf(h)]
           /\ threads = [t \in Threads |->
                            [pc |-> "check", call |-> IF t = 1 THEN k1 ELSE k2,
                             shopping_list |-> 0, existing_item |-> 0,
                             new_quantity |-> 0, result |-> OK]]

NextThreads ==
    \E t \in Threads :
        \/ ThreadCheck(t)
        \/ ThreadCreate(t)
        \/ ThreadFetch(t)
        \/ ThreadFind(t)
        \/ ThreadAppend(t)
        \/ ThreadCompare(t)
        \/ ThreadRead(t)
        \/ ThreadWrite(t)
        \/ ThreadRemove(t)

SpecThreads == InitThreads /\ [][NextThreads]_vars

\* ----------------------------------------------------------- properties
\* the items get_shopping_list reads for customer c: those of the stored
\* list, or [] for a list that the read would create
ItemsOf(lists, c) == IF c \in DOMAIN lists THEN lists[c].items ELSE <<>>

\* customer c has the same entry (or no entry) in both mappings
SameList(l1, l2, c) ==
    /\ c \in DOMAIN l1 <=> c \in DOMAIN l2
    /\ c \in DOMAIN l1 => l1[c] = l2[c]

HasSku(its, sku) == \E i \in 1 .. Len(its) : its[i].sku = sku

Others(its, sku) == SelectSeq(its, LAMBDA it : it.sku # sku)

LastUpdate(operation) == last.op = "update_list" /\ last.operation = operation

\* C1: an update_list call that fails leaves the items of every customer's
\* list, as get_shopping_list reads them, exactly as they were before the call
C1_FailedUpdateChangesNothing ==
    (last.op = "update_list" /\ last.result # OK) =>
        /\ IsValidationError(last.result) \/ IsItemNotFoundError(last.result)
        /\ \A c \in Customers :
               ItemsOf(shopping_lists, c) = ItemsOf(last.before, c)

\* a remove of more than the stored quantity has failed, after the list and
\* its line item were found
C1_Witness ==
    /\ LastUpdate("remove")
    /\ last.result # OK
    /\ last.customer_id \in Customers
    /\ \E i \in 1 .. Len(ItemsOf(last.before, last.customer_id)) :
           /\ ItemsOf(last.before, last.customer_id)[i].sku = last.sku
           /\ ItemsOf(last.before, last.customer_id)[i].quantity > 0
           /\ ItemsOf(last.before, last.customer_id)[i].quantity < last.quantity

\* C2: a get_shopping_list or update_list call made with customer id c1
\* leaves the list of every other customer c2 (list_id and items) unchanged
C2_ListsIndependent ==
    last.op # "none" =>
        \A c2 \in Customers \ {last.customer_id} :
            SameList(shopping_lists, last.before, c2)

\* an update has changed one customer's list while the other customer holds
\* a list with items
C2_Witness ==
    /\ last.op = "update_list"
    /\ last.result = OK
    /\ last.customer_id \in Customers
    /\ ItemsOf(shopping_lists, last.customer_id) # ItemsOf(last.before, last.customer_id)
    /\ \E c2 \in Customers \ {last.customer_id} : Len(ItemsOf(shopping_lists, c2)) > 0

\* C3: no stored line item has quantity 0
C3_NoZeroQuantityStored ==
    \A c \in DOMAIN shopping_lists :
        \A i \in 1 .. Len(shopping_lists[c].items) :
            shopping_lists[c].items[i].quantity > 0

\* C4: no list holds two line items with the same sku
C4_SkusUnique ==
    \A c \in DOMAIN shopping_lists :
        \A i, j \in 1 .. Len(shopping_lists[c].items) :
            i # j => shopping_lists[c].items[i].sku # shopping_lists[c].items[j].sku

\* an add or set of a sku that the list already held has succeeded on a list
\* of two line items
C4_Witness ==
    /\ last.op = "update_list"
    /\ last.operation \in {"add", "set"}
    /\ last.quantity > 0
    /\ last.result = OK
    /\ HasSku(ItemsOf(last.before, last.customer_id), last.sku)
    /\ Len(ItemsOf(shopping_lists, last.customer_id)) = 2

\* C5: get_shopping_list(c) with c >= 0 returns a list with list_id c (the
\* empty list on first access), a second call right after it returns an equal
\* list, and neither call changes the items of any customer's list
C5_ReadIdempotent ==
    (last.op = "get_shopping_list" /\ last.customer_id >= 0) =>
        LET c      == last.customer_id
            second == get_shopping_list(shopping_lists, c)
        IN  /\ last.result = OK
            /\ last.ret.list_id = c
            /\ c \notin DOMAIN last.before => last.ret = [list_id |-> c, items |-> <<>>]
            /\ second.result = OK
            /\ second.ret = last.ret
            /\ \A d \in Customers :
                   /\ ItemsOf(shopping_lists, d) = ItemsOf(last.before, d)
                   /\ ItemsOf(second.lists, d) = ItemsOf(shopping_lists, d)

\* a list that holds items has been read
C5_Witness ==
    /\ last.op = "get_shopping_list"
    /\ last.result = OK
    /\ Len(last.ret.items) > 0

\* C6: add(sku, a) followed by add(sku, b) leaves the customer's list equal
\* to the list that the single call add(sku, a + b) makes of the same
\* starting state
C6_AddCumulative ==
    (LastUpdate("add") /\ last.result = OK) =>
        \A b \in Quantities :
            LET c   == last.customer_id
                two == update_list(shopping_lists, last.sku, b, c, "add")
                one == update_list(last.before, last.sku, last.quantity + b, c, "add")
            IN  /\ two.result = OK
                /\ one.result = OK
                /\ ItemsOf(two.lists, c) = ItemsOf(one.lists, c)

\* a positive quantity has been added to a line item that held a positive
\* quantity
C6_Witness ==
    /\ LastUpdate("add")
    /\ last.result = OK
    /\ last.quantity > 0
    /\ \E i \in 1 .. Len(ItemsOf(last.before, last.customer_id)) :
           /\ ItemsOf(last.before, last.customer_id)[i].sku = last.sku
           /\ ItemsOf(last.before, last.customer_id)[i].quantity > 0
           /\ ItemsOf(shopping_lists, last.customer_id)[i].quantity
                  = ItemsOf(last.before, last.customer_id)[i].quantity + last.quantity

\* C7: a remove of more than the quantity stored for a sku that the list
\* holds fails with a ValidationError and leaves the list unchanged
C7_RemoveTooMany ==
    (/\ LastUpdate("remove")
     /\ last.customer_id \in Customers
     /\ \E i \in 1 .. Len(ItemsOf(last.before, last.customer_id)) :
            /\ ItemsOf(last.before, last.customer_id)[i].sku = last.sku
            /\ ItemsOf(last.before, last.customer_id)[i].quantity < last.quantity)
    => /\ IsValidationError(last.result)
       /\ ~IsItemNotFoundError(last.result)
       /\ SameList(shopping_lists, last.before, last.customer_id)

\* more than the stored quantity has been asked to be removed from a list of
\* two line items
C7_Witness ==
    /\ LastUpdate("remove")
    /\ last.customer_id \in Customers
    /\ Len(ItemsOf(last.before, last.customer_id)) = 2
    /\ \E i \in 1 .. 2 :
           /\ ItemsOf(last.before, last.customer_id)[i].sku = last.sku
           /\ ItemsOf(last.before, last.customer_id)[i].quantity > 0
           /\ ItemsOf(last.before, last.customer_id)[i].quantity < last.quantity

\* C8: set with quantity 0 succeeds, removes the line item of the sku if
\* there is one and changes nothing if there is none, keeps the other line
\* items and their order, and a second application changes nothing more
C8_SetZero ==
    (/\ LastUpdate("set")
     /\ last.quantity = 0
     /\ last.sku \in DOMAIN items
     /\ last.customer_id \in Customers)
    => LET c     == last.customer_id
           was   == ItemsOf(last.before, c)
           now   == ItemsOf(shopping_lists, c)
           again == update_list(shopping_lists, last.sku, 0, c, "set")
       IN  /\ last.result = OK
           /\ ~HasSku(now, last.sku)
           /\ now = Others(was, last.sku)
           /\ ~HasSku(was, last.sku) => now = was
           /\ again.result = OK
           /\ ItemsOf(again.lists, c) = now

\* set with quantity 0 has removed the first of two line items
C8_Witness ==
    /\ LastUpdate("set")
    /\ last.quantity = 0
    /\ last.result = OK
    /\ Len(ItemsOf(last.before, last.customer_id)) = 2
    /\ ItemsOf(last.before, last.customer_id)[1].sku = last.sku
    /\ Len(ItemsOf(shopping_lists, last.customer_id)) = 1

\* C9: after add(sku, q), remove(sku, q) succeeds and leaves the customer's
\* items as they were before the add
C9_AddRemoveRoundTrip ==
    (/\ LastUpdate("add")
     /\ last.sku \in DOMAIN items
     /\ last.quantity >= 0
     /\ last.customer_id \in Customers)
    => LET c  == last.customer_id
           rm == update_list(shopping_lists, last.sku, last.quantity, c, "remove")
       IN  /\ last.result = OK
           /\ rm.result = OK
           /\ ItemsOf(rm.lists, c) = ItemsOf(last.before, c)

\* C10: after a successful set with quantity q > 0 the list holds exactly
\* one line item for the sku, with quantity q, every other line item is
\* unchanged, and on a fresh store the list is exactly [{sku, q}]
C10_SetPositive ==
    (LastUpdate("set") /\ last.quantity > 0 /\ last.result = OK) =>
        LET c   == last.customer_id
            was == ItemsOf(last.before, c)
            now == get_shopping_list(shopping_lists, c).ret.items
        IN  /\ Cardinality({i \in 1 .. Len(now) : now[i].sku = last.sku}) = 1
            /\ \A i \in 1 .. Len(now) : now[i].sku = last.sku => now[i].quantity = last.quantity
            /\ Others(now, last.sku) = Others(was, last.sku)
            /\ last.before = <<>> =>
                   now = <<[sku |-> last.sku, quantity |-> last.quantity]>>

\* set has overwritten a different quantity in a list of two line items
C10_Witness ==
    /\ LastUpdate("set")
    /\ last.quantity > 0
    /\ last.result = OK
    /\ Len(ItemsOf(last.before, last.customer_id)) = 2
    /\ \E i \in 1 .. 2 :
           /\ ItemsOf(last.before, last.customer_id)[i].sku = last.sku
           /\ ItemsOf(last.before, last.customer_id)[i].quantity # last.quantity

ToolOps == {"GetShoppingListTool", "GetItemDetailsTool", "UpdateListTool"}

ErrorCodes == {"VALIDATION_ERROR", "ITEM_NOT_FOUND", "UNKNOWN_ERROR"}

\* C11: a tool call that hits an error raises nothing and returns an error
\* result with a message and an error_code that is VALIDATION_ERROR,
\* ITEM_NOT_FOUND or UNKNOWN_ERROR
C11_ErrorsCarryCode ==
    (last.op \in ToolOps /\ last.result # OK) =>
        /\ last.out.kind = "error"
        /\ last.out.message
        /\ last.out.error_code \in ErrorCodes

\* C12: an UpdateListTool.forward call rejected for its sku, quantity or
\* operation leaves the customer-to-list mapping exactly as it was
C12_RejectedBeforeMutation ==
    (/\ last.op = "UpdateListTool"
     /\ last.result # OK
     /\ \/ last.sku <= 0
        \/ last.quantity < 0
        \/ last.operation \notin {"add", "remove", "set"})
    => shopping_lists = last.before

\* C13: a remove of q from a line item that holds e >= q succeeds and
\* leaves the line item with e - q when that is positive and takes it out of
\* the list when it is 0; a remove of a sku the list does not hold fails with
\* ItemNotFoundError
C13_RemoveSubtracts ==
    (/\ LastUpdate("remove")
     /\ last.sku > 0
     /\ last.quantity >= 0
     /\ last.customer_id \in Customers)
    => LET was == ItemsOf(last.before, last.customer_id)
           now == ItemsOf(shopping_lists, last.customer_id)
       IN  /\ ~HasSku(was, last.sku) =>
                  /\ IsItemNotFoundError(last.result)
                  /\ now = was
           /\ \A i \in 1 .. Len(was) :
                  (was[i].sku = last.sku /\ last.quantity <= was[i].quantity) =>
                      /\ last.result = OK
                      /\ was[i].quantity - last.quantity > 0 =>
                             now = [was EXCEPT ![i].quantity = was[i].quantity - last.quantity]
                      /\ was[i].quantity - last.quantity = 0 =>
                             now = SubSeq(was, 1, i - 1) \o SubSeq(was, i + 1, Len(was))

\* a part of the quantity of a line item has been removed
C13_Witness ==
    /\ LastUpdate("remove")
    /\ last.result = OK
    /\ last.quantity > 0
    /\ \E i \in 1 .. Len(ItemsOf(shopping_lists, last.customer_id)) :
           /\ ItemsOf(shopping_lists, last.customer_id)[i].sku = last.sku
           /\ ItemsOf(shopping_lists, last.customer_id)[i].quantity > 0
           /\ ItemsOf(last.before, last.customer_id)[i].quantity
                  = ItemsOf(shopping_lists, last.customer_id)[i].quantity + last.quantity

SkusOf(its) == [i \in 1 .. Len(its) |-> its[i].sku]

\* C14: an update_list call that creates a line item puts it at the end of
\* the list, every update_list call keeps the relative order of the line
\* items that are in the list before and after it, and a line item whose
\* quantity changes keeps its position
C14_InsertionOrder ==
    (last.op = "update_list" /\ last.customer_id \in Customers) =>
        LET was == ItemsOf(last.before, last.customer_id)
            now == ItemsOf(shopping_lists, last.customer_id)
        IN  /\ SkusOf(SelectSeq(was, LAMBDA it : HasSku(now, it.sku)))
                   = SkusOf(SelectSeq(now, LAMBDA it : HasSku(was, it.sku)))
            /\ (~HasSku(was, last.sku) /\ HasSku(now, last.sku)) =>
                   /\ now[Len(now)].sku = last.sku
                   /\ now = Append(was, now[Len(now)])
            /\ \A i \in 1 .. Len(was) :
                   (was[i].sku = last.sku /\ HasSku(now, last.sku)) =>
                       /\ i <= Len(now)
                       /\ now[i].sku = last.sku

\* a line item has been created in a list that already held one
C14_Witness ==
    /\ last.op = "update_list"
    /\ last.result = OK
    /\ Len(ItemsOf(last.before, last.customer_id)) = 1
    /\ ~HasSku(ItemsOf(last.before, last.customer_id), last.sku)
    /\ Len(ItemsOf(shopping_lists, last.customer_id)) = 2

AllDone == threads # NoThreads /\ \A t \in Threads : threads[t].pc = "done"

\* the mapping after the calls of threads t1 and t2, made one after the other
Serial(t1, t2) ==
    LET k1 == threads[t1].call
        k2 == threads[t2].call
        s1 == update_list(sched.start, k1.sku, k1.quantity, k1.customer_id, k1.operation)
    IN  update_list(s1.lists, k2.sku, k2.quantity, k2.customer_id, k2.operation).lists

LostUpdate == AllDone /\ shopping_lists \notin {Serial(1, 2), Serial(2, 1)}

\* C15: when each of the two update_list calls runs atomically, the final
\* mapping is the result of one of the two serial orders of the calls (no
\* update is lost); the witness is the other half of the claim: with no
\* mutual exclusion a state is reached in which an update of two add calls
\* is lost
C15_AtomicCallsLoseNothing ==
    (sched.atomic /\ AllDone) => ~LostUpdate

\* two add calls for the same sku have interleaved and the final mapping is
\* that of neither serial order
C15_Witness ==
    /\ threads # NoThreads
    /\ ~sched.atomic
    /\ LostUpdate
    /\ threads[1].call.operation = "add"
    /\ threads[2].call.operation = "add"
    /\ threads[1].call.sku = threads[2].call.sku

====
